---------------------------- MODULE Spec2Model ----------------------------
(***************************************************************************)
(* Laminar: the job scheduler and run lifecycle engine of laminar.cpp.     *)
(*                                                                         *)
(* All scheduler state lives on one reactor thread; every callback         *)
(* (queueJob, notifyConfigChanged, runFinished, abortAll, the executor's   *)
(* pipe-read and child-exit continuations, registerClient, sendStatus)     *)
(* runs to completion before the next one starts.  One action of this      *)
(* module is one such callback, including every call it makes.             *)
(***************************************************************************)
EXTENDS Integers, Sequences, FiniteSets, TLC

VARIABLES
    nodes,          \* Laminar::nodes: the registry, in its iteration order
    nodeObj,        \* the Node objects alive on the heap, by identity
    jobTags,        \* Laminar::jobTags: job name -> set of tags
    buildNums,      \* Laminar::buildNums: job name -> last build number
    queuedJobs,     \* Laminar::queuedJobs: run ids, head first
    activeJobs,     \* Laminar::activeJobs: run ids, in insertion order
    runs,           \* the Run objects created so far, by id
    db,             \* rows of the builds table
    numKeepRunDirs, \* Laminar::numKeepRunDirs
    nodeCfg,        \* <home>/cfg/nodes/*.conf as last written
    jobCfg,         \* <home>/cfg/jobs/*.conf as last written
    runDirs,        \* <home>/run/<job>/<n> directories that exist
    workspaces,     \* <home>/run/<job>/workspace directories that exist
    ioFail,         \* which directory creation the file system refuses now
    clients,        \* Laminar::clients: the registered subscribers
    hist,           \* history: what each run has been through
    waiters,        \* Laminar::waiters: the registered waiters
    queueKind       \* the kind of container queuedJobs is in this build

vars == <<nodes, nodeObj, jobTags, buildNums, queuedJobs, activeJobs, runs, db,
          numKeepRunDirs, nodeCfg, jobCfg, runDirs, workspaces, ioFail,
          clients, hist, waiters, queueKind>>

-----------------------------------------------------------------------------
(* Bounds of the model *)

\* Run objects created over one behaviour (queueJob calls that are
\* accepted), under Spec, SpecBuilds and SpecTagged.
MaxRuns == 2
MaxBuildsRuns == 2
MaxTaggedRuns == 3
\* The same under SpecClients and SpecLog.
MaxClientRuns == 2
MaxLogRuns == 1
\* Scripts a run may have to walk (the .run script plus optional ones).
MaxSteps == 2
\* Output chunks one run may produce, under SpecClients and SpecLog.
MaxClientChunks == 1
MaxChunks == 3
\* Subscribers registered over one behaviour, under SpecClients and SpecLog.
MaxClients == 2
MaxLogClients == 1
\* Runs created, and waiters registered, where runs are aborted.
MaxAbortRuns == 2
\* Runs created where the tags of a node are rewritten.
MaxRetagRuns == 2
\* Runs created where the queue index of job_started is observed.
MaxIndexRuns == 3
\* Runs created where every run ends.
MaxAdmitRuns == 3
MaxIndexClients == 1
MaxWaiters == 1
\* Messages in a subscriber's inbox beyond which sendStatus is not called.
MaxInbox == 2

(* Program constants *)

\* conf.get<int>("EXECUTORS", 6) and the default node's numExecutors
DefaultExecutors == 6
COMPRESS_LOG_MIN_SIZE == 1024

-----------------------------------------------------------------------------
(* The environment the model enumerates *)

\* Jobs with a cfg/jobs/<name>.run script.
Jobs == {"a", "b"}
\* Names queueJob may be called with; "x" has no .run script.
JobNames == Jobs \cup {"x"}
\* Node config files that may appear under cfg/nodes.
NodeNames == {"A", "B"}
Tags == {"gpu", "win"}

Max(S) == CHOOSE x \in S : \A y \in S : y <= x
Min(S) == CHOOSE x \in S : \A y \in S : x <= y
Range(s) == {s[i] : i \in DOMAIN s}
\* s without its i-th element
RemoveAt(s, i) == [k \in 1..(Len(s) - 1) |-> IF k < i THEN s[k] ELSE s[k + 1]]
\* s with e inserted so that it becomes the i-th element
InsertAt(s, i, e) ==
    [k \in 1..(Len(s) + 1) |-> IF k < i THEN s[k] ELSE IF k = i THEN e ELSE s[k - 1]]


-----------------------------------------------------------------------------
(* Objects *)

\* The identity of a Node object: the name it was made for, and a number
\* that tells it from the other live objects made for that name (a node
\* re-added under a name whose old object a run still holds).
\* NoObj is the null reference.
NoObj == <<"", 0>>

\* A Node as loadConfiguration builds it; busyExecutors starts at 0.
NewNode(name, executors, tags) ==
    [name |-> name, numExecutors |-> executors, busyExecutors |-> 0, tags |-> tags]

\* The Run queueJob makes: no node, no build number, no startedAt.
NewRun(name) ==
    [name |-> name, build |-> 0, node |-> NoObj, startedAt |-> FALSE, runDir |-> 0,
     result |-> "unknown", phase |-> "queued", step |-> 0, log |-> <<>>,
     aborted |-> FALSE]

FreshObj(heap, name) ==
    <<name, Min({g \in 1..(Cardinality(DOMAIN heap) + 1) : <<name, g>> \notin DOMAIN heap})>>

\* std::unordered_map::operator[] on buildNums: an absent key reads as 0.
BuildNum(bn, name) == IF name \in DOMAIN bn THEN bn[name] ELSE 0

\* m with key k set to v, whether or not k was a key before
Put(m, k, v) == [x \in DOMAIN m \cup {k} |-> IF x = k THEN v ELSE m[x]]

\* The scheduler state the handlers read and write, as one record.
Cur ==
    [nodes |-> nodes, nodeObj |-> nodeObj, jobTags |-> jobTags,
     buildNums |-> buildNums, queuedJobs |-> queuedJobs,
     activeJobs |-> activeJobs, runs |-> runs, db |-> db,
     runDirs |-> runDirs, workspaces |-> workspaces, clients |-> clients,
     hist |-> hist, waiters |-> waiters, queueKind |-> queueKind]

\* The handler's result becomes the next state.
Commit(st) ==
    /\ nodes' = st.nodes
    /\ nodeObj' = st.nodeObj
    /\ jobTags' = st.jobTags
    /\ buildNums' = st.buildNums
    /\ queuedJobs' = st.queuedJobs
    /\ activeJobs' = st.activeJobs
    /\ runs' = st.runs
    /\ db' = st.db
    /\ runDirs' = st.runDirs
    /\ workspaces' = st.workspaces
    /\ clients' = st.clients
    /\ hist' = st.hist
    /\ waiters' = st.waiters
    /\ queueKind' = queueKind

-----------------------------------------------------------------------------
(* Subscribers *)

\* MonitorScope::wantsStatus(job, num = 0)
WantsStatus(scope, job, num) ==
    CASE scope.type \in {"HOME", "ALL"} -> TRUE
      [] scope.type = "JOB" -> scope.job = job
      [] scope.type = "RUN" -> scope.job = job /\ scope.num = num
      [] OTHER -> FALSE

\* MonitorScope::wantsLog(job, num)
WantsLog(scope, job, num) ==
    scope.type = "LOG" /\ scope.job = job /\ scope.num = num

\* c->sendMessage(msg) with the message put ahead of the earlier ones
DeliverFirst(client, msg) == [client EXCEPT !.inbox = <<msg>> \o @]

\* c->sendMessage(msg): the transport keeps the order of the calls
Deliver(client, msg) == [client EXCEPT !.inbox = Append(@, msg)]

\* for(LaminarClient* c : clients) if(<c wants it>) c->sendMessage(msg);
\* wanting is the set of clients the test accepts.  A deregistered client
\* (reg = FALSE) is no longer in Laminar::clients.
Broadcast(cl, msg, wanting) ==
    [c \in DOMAIN cl |->
        IF cl[c].reg /\ c \in wanting THEN Deliver(cl[c], msg) ELSE cl[c]]

\* The clients whose scope wants the status of (job, num)
StatusWanting(cl, job, num) == {c \in DOMAIN cl : WantsStatus(cl[c].scope, job, num)}

\* The clients whose scope wants the log of (job, num)
LogWanting(cl, job, num) == {c \in DOMAIN cl : WantsLog(cl[c].scope, job, num)}

-----------------------------------------------------------------------------
(* Admission *)

\* nodeCanQueue letting a job without tags onto a tagged node
NodeCanQueueUntaggedAnywhere(node, name, jt) ==
    IF node.busyExecutors >= node.numExecutors THEN FALSE
    ELSE IF Cardinality(node.tags) = 0 THEN TRUE
    ELSE IF name \notin DOMAIN jt THEN TRUE
    ELSE \E tag \in jt[name] : tag \in node.tags

\* nodeCanQueue with the busy test left out
NodeCanQueueNoCapacityTest(node, name, jt) ==
    IF Cardinality(node.tags) = 0 THEN TRUE
    ELSE IF name \notin DOMAIN jt THEN FALSE
    ELSE \E tag \in jt[name] : tag \in node.tags

\* nodeCanQueue asking only whether the job has a tag at all
NodeCanQueueAnyTagged(node, name, jt) ==
    IF node.busyExecutors >= node.numExecutors THEN FALSE
    ELSE IF Cardinality(node.tags) = 0 THEN TRUE
    ELSE IF name \notin DOMAIN jt THEN FALSE
    ELSE jt[name] # {}

\* Laminar::nodeCanQueue
NodeCanQueue(node, name, jt) ==
    IF node.busyExecutors >= node.numExecutors THEN FALSE
    ELSE IF Cardinality(node.tags) = 0 THEN TRUE
    ELSE IF name \notin DOMAIN jt THEN FALSE
    ELSE \E tag \in jt[name] : tag \in node.tags

\* The last registry entry whose node accepts the run
LastAccepting(st, name) ==
    LET ok == {i \in DOMAIN st.nodes :
                 NodeCanQueue(st.nodeObj[st.nodes[i].obj], name, st.jobTags)}
    IN IF ok = {} THEN 0 ELSE Max(ok)

\* The first registry entry, in iteration order, whose node accepts the run;
\* 0 when none does (the for loop of tryStartRun runs off the end).
FirstAccepting(st, name) ==
    LET ok == {i \in DOMAIN st.nodes :
                 NodeCanQueue(st.nodeObj[st.nodes[i].obj], name, st.jobTags)}
    IN IF ok = {} THEN 0 ELSE Min(ok)

\* node->busyExecutors++ where the run has not taken an executor
OccupyNot(node) == node

\* node->busyExecutors++ (line 650)
Occupy(node) == [node EXCEPT !.busyExecutors = @ + 1]

\* buildNums[run->name] read back without the + 1
NextBuildNumNoInc(bn, name) == Max({BuildNum(bn, name), 1})

\* uint buildNum = buildNums[run->name] + 1 (line 578)
NextBuildNum(bn, name) == BuildNum(bn, name) + 1

\* Whether the file system refuses, for this job, the directory creation of
\* the given stage: "ws" workspace, "rd" run directory, "ar" archive directory.
Refuses(io, name, stage) == io.job = name /\ io.stage = stage

\* The job_started broadcast of tryStartRun: the scopes that want the run's
\* status, and every RUN scope of the same job.
StartedWanted(scope, name, build) ==
    \/ WantsStatus(scope, name, build)
    \/ (scope.type = "RUN" /\ scope.job = name)

\* The place of run r in the queue, counted from 0.
IndexOf(queue, r) == (CHOOSE i \in DOMAIN queue : queue[i] = r) - 1

\* The containers queuedJobs may be: a std::list, whose iterators go round
\* through the end of the list, or one with random access iterators.
QueueKinds == {"list", "array"}

\* std::distance(first, last) with first the iterator at place k of n and
\* last the iterator at place 0: the number of increments that lead from
\* first to last.  At place 0 it is 0; further on, last is not reachable
\* from first and the behaviour is undefined: a list walks on through its
\* end to its begin, random access iterators are subtracted.
DistanceToBegin(kind, k, n) ==
    IF k = 0 THEN 0
    ELSE IF kind = "list" THEN n - k + 1
    ELSE 0 - k

\* tryStartRun advancing buildNums before it creates the directories
TryStartRunNumbersFirst(st, r, io) ==
    LET name == st.runs[r].name
        i == FirstAccepting(st, name)
    IN
    IF i = 0 THEN [st |-> st, ok |-> FALSE, threw |-> FALSE]
    ELSE
    LET obj == st.nodes[i].obj
        buildNum == NextBuildNum(st.buildNums, name)
        rd == <<name, buildNum>>
        \* a stale run directory is removed before it is created again
        cleared == st.runDirs \ {rd}
        withWs == [st EXCEPT !.workspaces = @ \cup {name},
                             !.buildNums = Put(@, name, buildNum)]
        withRd == [withWs EXCEPT !.runDirs = cleared \cup {rd},
                                 !.runs[r].runDir = buildNum]
        \* the argument of assignNewJobs (line 714)
        queueIndex == DistanceToBegin(st.queueKind, IndexOf(st.queuedJobs, r),
                                      Len(st.queuedJobs))
        msg == [type |-> "job_started", name |-> name, number |-> buildNum, run |-> r,
                queueIndex |-> queueIndex]
    IN
    IF name \notin st.workspaces /\ Refuses(io, name, "ws")
    THEN [st |-> st, ok |-> FALSE, threw |-> FALSE]
    ELSE IF Refuses(io, name, "rd")
    THEN [st |-> [withWs EXCEPT !.runDirs = cleared], ok |-> FALSE, threw |-> FALSE]
    ELSE IF Refuses(io, name, "ar")
    THEN [st |-> withRd, ok |-> FALSE, threw |-> TRUE]
    ELSE
    [st |-> [withRd EXCEPT
                !.nodeObj[obj] = Occupy(@),
                !.runs[r].node = obj,
                !.runs[r].startedAt = TRUE,
                !.runs[r].build = buildNum,
                !.buildNums = Put(@, name, buildNum),
                !.jobTags = IF name \in DOMAIN @ THEN @ ELSE Put(@, name, {}),
                !.clients = Broadcast(@, msg,
                                {c \in DOMAIN @ : StartedWanted(@[c].scope, name, buildNum)}),
                !.hist.assigned[name] = Append(@, buildNum),
                \* handleRunStep: run->step() spawns the first script
                !.runs[r].step = 1,
                !.runs[r].phase = "drain"],
     ok |-> TRUE, threw |-> FALSE]

\* Laminar::tryStartRun.  The result is the state it leaves, whether it
\* returned true, and whether it left by an exception: create_directories
\* for the archive directory is called without an error_code, so a refusal
\* there throws out of the admission pass.
TryStartRun(st, r, io) ==
    LET name == st.runs[r].name
        i == FirstAccepting(st, name)
    IN
    IF i = 0 THEN [st |-> st, ok |-> FALSE, threw |-> FALSE]
    ELSE
    LET obj == st.nodes[i].obj
        buildNum == NextBuildNum(st.buildNums, name)
        rd == <<name, buildNum>>
        \* a stale run directory is removed before it is created again
        cleared == st.runDirs \ {rd}
        withWs == [st EXCEPT !.workspaces = @ \cup {name}]
        withRd == [withWs EXCEPT !.runDirs = cleared \cup {rd},
                                 !.runs[r].runDir = buildNum]
        \* the argument of assignNewJobs (line 714)
        queueIndex == DistanceToBegin(st.queueKind, IndexOf(st.queuedJobs, r),
                                      Len(st.queuedJobs))
        msg == [type |-> "job_started", name |-> name, number |-> buildNum, run |-> r,
                queueIndex |-> queueIndex]
    IN
    IF name \notin st.workspaces /\ Refuses(io, name, "ws")
    THEN [st |-> st, ok |-> FALSE, threw |-> FALSE]
    ELSE IF Refuses(io, name, "rd")
    THEN [st |-> [withWs EXCEPT !.runDirs = cleared], ok |-> FALSE, threw |-> FALSE]
    ELSE IF Refuses(io, name, "ar")
    THEN [st |-> withRd, ok |-> FALSE, threw |-> TRUE]
    ELSE
    [st |-> [withRd EXCEPT
                !.nodeObj[obj] = Occupy(@),
                !.runs[r].node = obj,
                !.runs[r].startedAt = TRUE,
                !.runs[r].build = buildNum,
                !.buildNums = Put(@, name, buildNum),
                !.jobTags = IF name \in DOMAIN @ THEN @ ELSE Put(@, name, {}),
                !.clients = Broadcast(@, msg,
                                {c \in DOMAIN @ : StartedWanted(@[c].scope, name, buildNum)}),
                !.hist.assigned[name] = Append(@, buildNum),
                \* handleRunStep: run->step() spawns the first script
                !.runs[r].step = 1,
                !.runs[r].phase = "drain"],
     ok |-> TRUE, threw |-> FALSE]

RECURSIVE AssignFromBlocking(_, _, _)
\* The loop of assignNewJobs if it stopped at the first run it cannot start
AssignFromBlocking(st, i, io) ==
    IF i > Len(st.queuedJobs) THEN st
    ELSE
    LET r == st.queuedJobs[i]
        t == TryStartRun(st, r, io)
    IN
    IF t.ok
    THEN AssignFromBlocking([t.st EXCEPT !.activeJobs = Append(@, r),
                                         !.queuedJobs = RemoveAt(@, i)], i, io)
    ELSE t.st

RECURSIVE AssignFromKeepQueued(_, _, _)
\* The loop of assignNewJobs without queuedJobs.erase(it)
AssignFromKeepQueued(st, i, io) ==
    IF i > Len(st.queuedJobs) THEN st
    ELSE
    LET r == st.queuedJobs[i]
        t == TryStartRun(st, r, io)
    IN
    IF t.threw THEN t.st
    ELSE IF t.ok
    THEN AssignFromKeepQueued([t.st EXCEPT !.activeJobs = Append(@, r)], i + 1, io)
    ELSE AssignFromKeepQueued(t.st, i + 1, io)

RECURSIVE AssignFromLast(_, _, _)
\* The loop of assignNewJobs walking the queue from its last entry
AssignFromLast(st, i, io) ==
    IF i > Len(st.queuedJobs) THEN st
    ELSE
    LET j == Len(st.queuedJobs) - i + 1
        r == st.queuedJobs[j]
        t == TryStartRun(st, r, io)
    IN
    IF t.threw THEN t.st
    ELSE IF t.ok
    THEN AssignFromLast([t.st EXCEPT !.activeJobs = Append(@, r),
                                     !.queuedJobs = RemoveAt(@, j)], i, io)
    ELSE AssignFromLast(t.st, i + 1, io)

RECURSIVE AssignFrom(_, _, _)
\* The loop of Laminar::assignNewJobs from the i-th queue entry on.
AssignFrom(st, i, io) ==
    IF i > Len(st.queuedJobs) THEN st
    ELSE
    LET r == st.queuedJobs[i]
        t == TryStartRun(st, r, io)
    IN
    IF t.threw THEN t.st
    ELSE IF t.ok
    THEN AssignFrom([t.st EXCEPT !.activeJobs = Append(@, r),
                                 !.queuedJobs = RemoveAt(@, i)], i, io)
    ELSE AssignFrom(t.st, i + 1, io)

\* Laminar::assignNewJobs
AssignNewJobs(st, io) == AssignFrom(st, 1, io)

\* Node objects are held by shared_ptr: one is destroyed when neither the
\* registry nor an active run refers to it.
Collect(st) ==
    LET keep == {st.nodes[i].obj : i \in DOMAIN st.nodes}
                  \cup {st.runs[r].node : r \in Range(st.activeJobs)}
    IN [st EXCEPT !.nodeObj = [o \in DOMAIN @ \cap keep |-> @[o]]]

-----------------------------------------------------------------------------
(* queueJob *)

\* queueJob without the test for the .run script
HasRunScriptAny(name) == TRUE

\* fs::exists(cfg/jobs/<name>.run)
HasRunScript(name) == name \in Jobs

\* Laminar::queueJob for a job with a .run script, up to the call of
\* assignNewJobs (lines 486-517)
Enqueue(st, name) ==
    LET r == Len(st.runs) + 1
        msg == [type |-> "job_queued", name |-> name, number |-> 0, run |-> r]
    IN [st EXCEPT
          !.runs = Append(@, NewRun(name)),
          !.queuedJobs = Append(@, r),
          !.hist.inserts = Append(@, 0),
          !.hist.completed = Append(@, 0),
          !.hist.produced = Append(@, <<>>),
          !.clients = Broadcast(@, msg, StatusWanting(@, name, 0))]

\* Laminar::queueJob, for a job with a .run script
QueueJobAccepted(st, name, io) == AssignNewJobs(Enqueue(st, name), io)

\* Laminar::queueJob
QueueJob(name) ==
    /\ IF HasRunScript(name)
       THEN Commit(QueueJobAccepted(Cur, name, ioFail))
       ELSE Commit(Cur)
    /\ UNCHANGED <<numKeepRunDirs, nodeCfg, jobCfg, ioFail>>

-----------------------------------------------------------------------------
(* loadConfiguration *)

\* What one cfg/nodes/<name>.conf holds: executors is the value of
\* conf.get<int>("EXECUTORS", 6), tags the parsed TAGS ({} when TAGS is
\* absent or empty).
NodeFile(executors, tags) == [executors |-> executors, tags |-> tags]
\* Contents of cfg/nodes: no file at all; node A alone, with one or two
\* executors; B alone; A without tags beside B tagged gpu (scenario S3); A
\* tagged win beside B tagged gpu (scenario S2).
NoNodeCfg == <<>>
CfgA1 == [n \in {"A"} |-> NodeFile(1, {})]
CfgA2 == [n \in {"A"} |-> NodeFile(2, {})]
CfgB == [n \in {"B"} |-> NodeFile(1, {"gpu"})]
CfgS3 == [n \in {"A", "B"} |-> IF n = "A" THEN NodeFile(1, {}) ELSE NodeFile(1, {"gpu"})]
CfgS2 == [n \in {"A", "B"} |-> IF n = "A" THEN NodeFile(1, {"win"}) ELSE NodeFile(1, {"gpu"})]
\* Contents of cfg/jobs/*.conf, as the parsed TAGS of each job: no job
\* tagged, or job a tagged gpu.
NoJobCfg == [j \in Jobs |-> {}]
JobCfgGpu == [j \in Jobs |-> IF j = "a" THEN {"gpu"} ELSE {}]

RegistryNames(reg) == {reg[i].name : i \in DOMAIN reg}
ObjOf(reg, name) == reg[CHOOSE i \in DOMAIN reg : reg[i].name = name].obj

\* The sequences that hold exactly the given entries, each once.
Orderings(entries) ==
    {s \in [1..Cardinality(entries) -> entries] : Range(s) = entries}

\* The registry loadConfiguration may leave.  Existing entries keep their
\* relative order; the container decides where an emplaced entry goes.
RegistryOrders(kept, added) ==
    {s \in Orderings(Range(kept) \cup added) :
        SelectSeq(s, LAMBDA e : e \in Range(kept)) = kept}

\* The scan replacing the Node by one built from the file
UpdateNodeFresh(node, f) == NewNode(node.name, f.executors, f.tags)

\* What the scan does to the Node it found or made for a file (lines
\* 422-433): numExecutors is assigned, tags only when TAGS is not empty,
\* busyExecutors is not touched.
UpdateNode(node, f) ==
    [node EXCEPT !.numExecutors = f.executors,
                 !.tags = IF f.tags # {} THEN f.tags ELSE @]

\* The removal loop keeping only what the scan found
KeepsKnownOnly(name, known) == name \in known

\* The test of the removal loop (line 442): the entry stays if the scan
\* found its file, or if it is the default node and the scan found none.
Keeps(name, known) ==
    (name = "" /\ Cardinality(known) = 0) \/ name \in known

\* The scan of cfg/nodes (lines 412-437): an existing Node is updated in
\* place, a new name gets a new Node.  node->tags is assigned only when the
\* TAGS value is not empty.
ScanNodes(st, ncfg, objFor) ==
    LET known == DOMAIN ncfg
        old == RegistryNames(st.nodes)
        upd(o, f) == UpdateNode(o, f)
        made(n) == LET f == ncfg[n]
                   IN [NewNode(n, f.executors, {}) EXCEPT
                          !.tags = IF f.tags # {} THEN f.tags ELSE @]
        updated == {ObjOf(st.nodes, n) : n \in known \cap old}
    IN [o \in DOMAIN st.nodeObj \cup {objFor[n] : n \in known \ old} |->
          IF o \in updated
          THEN upd(st.nodeObj[o], ncfg[st.nodeObj[o].name])
          ELSE IF o \in DOMAIN st.nodeObj THEN st.nodeObj[o]
          ELSE made(CHOOSE n \in known \ old : objFor[n] = o)]

\* The job scan (lines 456-475): an entry is written only for a job whose
\* TAGS value is not empty.
ScanJobs(jt, jcfg) ==
    [j \in DOMAIN jt \cup {k \in DOMAIN jcfg : jcfg[k] # {}} |->
        IF j \in DOMAIN jcfg /\ jcfg[j] # {} THEN jcfg[j] ELSE jt[j]]

\* Laminar::loadConfiguration: the states it may leave, one for each order
\* the registry may take.
LoadConfiguration(st, ncfg, jcfg) ==
    LET known == DOMAIN ncfg
        old == RegistryNames(st.nodes)
        new == known \ old
        objFor == [n \in new |-> FreshObj(st.nodeObj, n)]
        heap == ScanNodes(st, ncfg, objFor)
        \* lines 439-446
        kept == SelectSeq(st.nodes, LAMBDA e : Keeps(e.name, known))
        added == {[name |-> n, obj |-> objFor[n]] : n \in new}
        \* lines 448-454
        needDefault == Len(kept) = 0 /\ added = {}
        defObj == FreshObj(heap, "")
    IN
    IF needDefault
    THEN {[st EXCEPT !.nodes = <<[name |-> "", obj |-> defObj]>>,
                     !.nodeObj = Put(heap, defObj, NewNode("", DefaultExecutors, {})),
                     !.jobTags = ScanJobs(@, jcfg)]}
    ELSE {[st EXCEPT !.nodes = reg, !.nodeObj = heap, !.jobTags = ScanJobs(@, jcfg)] :
             reg \in RegistryOrders(kept, added)}

\* notifyConfigChanged without the call of assignNewJobs
NotifyConfigChangedLoadOnly(ncfg, jcfg) ==
    /\ \E st \in LoadConfiguration(Cur, ncfg, jcfg) : Commit(Collect(st))
    /\ nodeCfg' = ncfg
    /\ jobCfg' = jcfg
    /\ UNCHANGED <<numKeepRunDirs, ioFail>>

\* Laminar::notifyConfigChanged, called when the watch on cfg/nodes and
\* cfg/jobs reports a change; ncfg and jcfg are what the directories hold.
NotifyConfigChanged(ncfg, jcfg) ==
    /\ \E st \in LoadConfiguration(Cur, ncfg, jcfg) :
          Commit(Collect(AssignNewJobs(st, ioFail)))
    /\ nodeCfg' = ncfg
    /\ jobCfg' = jcfg
    /\ UNCHANGED <<numKeepRunDirs, ioFail>>

-----------------------------------------------------------------------------
(* Logs.  A byte string is a sequence of chunks [b, n]: n bytes of kind b,  *)
(* "A" for repetitive text and "R" for bytes deflate cannot shrink.         *)

ChunkChoices == {[b |-> "A", n |-> 400], [b |-> "R", n |-> 700]}

RECURSIVE LogLen(_)
\* std::string::length
LogLen(log) == IF log = <<>> THEN 0 ELSE Head(log).n + LogLen(Tail(log))

RECURSIVE Bytes(_)
\* The bytes a chunk sequence stands for: adjacent chunks of one kind merged.
Bytes(log) ==
    IF Len(log) <= 1 THEN log
    ELSE LET rest == Bytes(Tail(log))
         IN IF Head(log).b = Head(rest).b
            THEN <<[b |-> Head(log).b, n |-> Head(log).n + Head(rest).n]>> \o Tail(rest)
            ELSE <<Head(log)>> \o rest

RECURSIVE DeflatedSize(_)
\* The size of the zlib stream of a byte string.
DeflatedSize(log) ==
    IF log = <<>> THEN 8
    ELSE (IF Head(log).b = "A" THEN Head(log).n \div 8 ELSE Head(log).n + 8)
         + DeflatedSize(Tail(log))

\* ::compress into a buffer of bufSize bytes: Z_OK and the stream, or
\* Z_BUF_ERROR when the stream does not fit.  A blob is [zipped, bytes]:
\* the zlib stream of bytes when zipped, else the bytes themselves.
Compress(log, bufSize) ==
    IF DeflatedSize(log) <= bufSize
    THEN [ok |-> TRUE, blob |-> [zipped |-> TRUE, bytes |-> log]]
    ELSE [ok |-> FALSE, blob |-> [zipped |-> FALSE, bytes |-> <<>>]]

\* ::uncompress: Z_OK and the bytes for a zlib stream, Z_DATA_ERROR otherwise.
Uncompress(blob) ==
    IF blob.zipped THEN [ok |-> TRUE, bytes |-> blob.bytes]
    ELSE [ok |-> FALSE, bytes |-> <<>>]

\* The log as runFinished stores it (lines 757-768): the blob and outputLen.
StoredLog(log) ==
    LET logsize == LogLen(log)
        z == Compress(log, logsize)
    IN [output |-> IF logsize >= COMPRESS_LOG_MIN_SIZE /\ z.ok
                   THEN z.blob ELSE [zipped |-> FALSE, bytes |-> log],
        outputLen |-> logsize]

-----------------------------------------------------------------------------
(* The run executor: Laminar::handleRunStep and the Run it walks *)

IsActive(r) == r \in Range(activeJobs)

\* The readDescriptor callback of handleRunStep: one chunk of output.
Output(r, chunk) ==
    /\ IsActive(r)
    /\ runs[r].phase = "drain"
    /\ runs' = [runs EXCEPT ![r].log = Append(@, chunk)]
    /\ clients' = Broadcast(clients,
                      [type |-> "log", name |-> runs[r].name,
                       number |-> runs[r].build, run |-> r,
                       data |-> [zipped |-> FALSE, bytes |-> <<chunk>>]],
                      LogWanting(clients, runs[r].name, runs[r].build))
    /\ UNCHANGED <<nodes, nodeObj, jobTags, buildNums, queuedJobs, activeJobs, db,
                   numKeepRunDirs, nodeCfg, jobCfg, runDirs, workspaces, ioFail, hist, waiters, queueKind>>

\* The output pipe reaches EOF: the promise of readDescriptor resolves and
\* the chain goes on to wait for the child's exit.
PipeEOF(r) ==
    /\ IsActive(r)
    /\ runs[r].phase = "drain"
    /\ runs' = [runs EXCEPT ![r].phase = "reap"]
    /\ UNCHANGED <<nodes, nodeObj, jobTags, buildNums, queuedJobs, activeJobs, db,
                   numKeepRunDirs, nodeCfg, jobCfg, runDirs, workspaces, ioFail,
                   clients, hist, waiters, queueKind>>

\* Run::reaped: the state the exit status maps to.
Reaped(run, status) ==
    IF run.aborted THEN "aborted"
    ELSE IF status = 0 THEN "success"
    ELSE "failed"

\* The exit status taken up while the pipe may still hold output
ChildExitBeforeEOF(r, status, more) ==
    /\ IsActive(r)
    /\ runs[r].phase \in {"drain", "reap"}
    /\ LET result == Reaped(runs[r], status)
           next == result = "success" /\ more /\ runs[r].step < MaxSteps
       IN runs' = [runs EXCEPT ![r].result = result,
                               ![r].step = IF next THEN @ + 1 ELSE @,
                               ![r].phase = IF next THEN "drain" ELSE "done"]
    /\ UNCHANGED <<nodes, nodeObj, jobTags, buildNums, queuedJobs, activeJobs, db,
                   numKeepRunDirs, nodeCfg, jobCfg, runDirs, workspaces, ioFail,
                   clients, hist, waiters, queueKind>>

\* The child was reaped: run->reaped(status), then handleRunStep again;
\* run->step() spawns the next script when the run succeeded so far and a
\* script is left (more), else the promise is ready and runFinished is due.
ChildExit(r, status, more) ==
    /\ IsActive(r)
    /\ runs[r].phase = "reap"
    /\ LET result == Reaped(runs[r], status)
           next == result = "success" /\ more /\ runs[r].step < MaxSteps
       IN runs' = [runs EXCEPT ![r].result = result,
                               ![r].step = IF next THEN @ + 1 ELSE @,
                               ![r].phase = IF next THEN "drain" ELSE "done"]
    /\ UNCHANGED <<nodes, nodeObj, jobTags, buildNums, queuedJobs, activeJobs, db,
                   numKeepRunDirs, nodeCfg, jobCfg, runDirs, workspaces, ioFail,
                   clients, hist, waiters, queueKind>>

\* Run::abort: the run's state is ABORTED, the current child is signalled
\* and the scripts that are left are dropped.
Abort(run) == [run EXCEPT !.aborted = TRUE, !.result = "aborted"]

\* Laminar::abortAll: run->abort() for every active run.
AbortAll ==
    /\ runs' = [r \in DOMAIN runs |-> IF IsActive(r) THEN Abort(runs[r]) ELSE runs[r]]
    /\ UNCHANGED <<nodes, nodeObj, jobTags, buildNums, queuedJobs, activeJobs, db,
                   numKeepRunDirs, nodeCfg, jobCfg, runDirs, workspaces, ioFail,
                   clients, hist, waiters, queueKind>>

\* TIMEOUT of cfg/jobs/<name>.conf, 0 without the key (lines 636-637); the
\* files of the model give job a a timeout and job b none.
Timeout(name) == IF name = "a" THEN 1 ELSE 0

\* The timer that tryStartRun armed for the run fires (lines 638-645).  The
\* timer is cancelled when the Run is destroyed.
TimeoutFires(r) ==
    /\ IsActive(r)
    /\ Timeout(runs[r].name) > 0
    /\ runs' = [runs EXCEPT ![r] = Abort(@)]
    /\ UNCHANGED <<nodes, nodeObj, jobTags, buildNums, queuedJobs, activeJobs, db,
                   numKeepRunDirs, nodeCfg, jobCfg, runDirs, workspaces, ioFail,
                   clients, hist, waiters, queueKind>>

\* The abort of one run that a client asks for: run->abort() on the active
\* run it names.
AbortRun(r) ==
    /\ IsActive(r)
    /\ runs' = [runs EXCEPT ![r] = Abort(@)]
    /\ UNCHANGED <<nodes, nodeObj, jobTags, buildNums, queuedJobs, activeJobs, db,
                   numKeepRunDirs, nodeCfg, jobCfg, runDirs, workspaces, ioFail,
                   clients, hist, waiters, queueKind>>

-----------------------------------------------------------------------------
(* runFinished *)

\* numKeepRunDirs is static_cast<uint>(atoi(LAMINAR_KEEP_RUNDIRS)).  The
\* model holds the int atoi returned, k; the uint is k mod 2^32, so a
\* negative k stands for 2^32 + k.  KeepAtLeast(k, n) is "the uint is at
\* least n", for 0 <= n < 2^31.
KeepChoices == {0, 1, -1}
KeepAtLeast(k, n) == k < 0 \/ k >= n

\* static_cast<int>(oldestActive - numKeepRunDirs): the difference is taken
\* mod 2^32 and read back as an int, which for operands below 2^31 in size
\* is oldestActive - k.
SweepStart(oldestActive, k) == oldestActive - k

RECURSIVE Sweep(_, _, _)
\* The loop of lines 822-830: remove run/<name>/<i> from i downwards, and
\* stop at the first directory that does not exist.
Sweep(dirs, name, i) ==
    IF i > 0 /\ <<name, i>> \in dirs
    THEN Sweep(dirs \ {<<name, i>>}, name, i - 1)
    ELSE dirs

\* activeJobs.byJobName().equal_range(name): the active runs of the job,
\* oldest insertion first.
ActiveOf(st, name) == SelectSeq(st.activeJobs, LAMBDA r : st.runs[r].name = name)

\* (it.first == it.second) ? buildNums[name] : (*it.first)->build - 1
OldestActive(st, name) ==
    IF ActiveOf(st, name) = <<>>
    THEN BuildNum(st.buildNums, name)
    ELSE st.runs[Head(ActiveOf(st, name))].build - 1

\* node->busyExecutors-- (line 753)
Release(node) == [node EXCEPT !.busyExecutors = @ - 1]

\* INSERT INTO builds with name alone as the key
InsertOkNameOnly(rows, row) ==
    ~ \E x \in rows : x.name = row.name

\* INSERT INTO builds: refused when the primary key (name, number) is taken.
InsertOk(rows, row) ==
    ~ \E x \in rows : x.name = row.name /\ x.number = row.number

\* What a waiter finds when complete(run) is called: whether the builds row
\* of the run is in the table, how often job_completed was generated for
\* it, and whether it is in the active set.
SeenAt(st, r) ==
    [row |-> \E x \in st.db : x.name = st.runs[r].name /\ x.number = st.runs[r].build,
     completed |-> st.hist.completed[r],
     active |-> r \in Range(st.activeJobs)]

\* LaminarWaiter::complete: the waiter has the run it is told of.
Complete(waiter, r, seen) ==
    [waiter EXCEPT !.done = Append(@, r), !.saw = Append(@, seen)]

\* The loop over Laminar::waiters that reaches waiters that have left
NotifyWaitersGone(st, r) ==
    [w \in DOMAIN st.waiters |-> Complete(st.waiters[w], r, SeenAt(st, r))]

\* The loop over Laminar::waiters (lines 803-805)
NotifyWaiters(st, r) ==
    [w \in DOMAIN st.waiters |->
        IF st.waiters[w].reg THEN Complete(st.waiters[w], r, SeenAt(st, r))
        ELSE st.waiters[w]]

\* Laminar::runFinished up to the retention sweep (lines 750-830)
FinishRun(st, r, keep) ==
    LET run == st.runs[r]
        stored == StoredLog(run.log)
        row == [name |-> run.name, number |-> run.build,
                node |-> st.nodeObj[run.node].name, result |-> run.result,
                output |-> stored.output, outputLen |-> stored.outputLen]
        ok == InsertOk(st.db, row)
        msg == [type |-> "job_completed", name |-> run.name,
                number |-> run.build, run |-> r]
        \* lines 753-775
        inserted == [st EXCEPT
                       !.nodeObj[run.node] = Release(@),
                       !.db = IF ok THEN @ \cup {row} ELSE @,
                       !.hist.inserts[r] = IF ok THEN @ + 1 ELSE @]
        \* lines 777-800
        told == [inserted EXCEPT
                   !.hist.completed[r] = @ + 1,
                   !.jobTags = IF run.name \in DOMAIN @ THEN @ ELSE Put(@, run.name, {}),
                   !.hist.produced[r] = Bytes(run.log),
                   !.clients = Broadcast(@, msg, StatusWanting(@, run.name, run.build))]
        \* lines 803-805
        waited == [told EXCEPT !.waiters = NotifyWaiters(told, r)]
        \* line 810
        erased == [waited EXCEPT
                     !.activeJobs = SelectSeq(@, LAMBDA x : x # r),
                     \* the Run is destroyed when the continuation returns;
                     \* the model keeps its identity (name, build) only
                     !.runs[r] = [NewRun(run.name) EXCEPT !.build = run.build,
                                                         !.phase = "terminal"]]
    IN [erased EXCEPT
          !.runDirs = Sweep(@, run.name,
                            SweepStart(OldestActive(erased, run.name), keep))]

\* runFinished that is not called for an aborted run
RunFinishedUnlessAborted(r) ==
    /\ IsActive(r)
    /\ runs[r].phase = "done"
    /\ ~ runs[r].aborted
    /\ \E fin \in {FinishRun(Cur, r, numKeepRunDirs)} :
          \E st \in {AssignNewJobs(fin, ioFail)} : Commit(Collect(st))
    /\ UNCHANGED <<numKeepRunDirs, nodeCfg, jobCfg, ioFail>>

\* runFinished without the call of assignNewJobs at its end
RunFinishedNoAdmission(r) ==
    /\ IsActive(r)
    /\ runs[r].phase = "done"
    /\ \E fin \in {FinishRun(Cur, r, numKeepRunDirs)} : Commit(Collect(fin))
    /\ UNCHANGED <<numKeepRunDirs, nodeCfg, jobCfg, ioFail>>

\* Laminar::runFinished: the continuation of handleRunStep's promise
RunFinished(r) ==
    /\ IsActive(r)
    /\ runs[r].phase = "done"
    /\ \E fin \in {FinishRun(Cur, r, numKeepRunDirs)} :
          \E st \in {AssignNewJobs(fin, ioFail)} : Commit(Collect(st))
    /\ UNCHANGED <<numKeepRunDirs, nodeCfg, jobCfg, ioFail>>

-----------------------------------------------------------------------------
(* registerClient, deregisterClient, sendStatus *)

\* The scopes the subscribers of the model come with.
NoScopeJob == ""
HomeScope == [type |-> "HOME", job |-> NoScopeJob, num |-> 0]
JobScope(job) == [type |-> "JOB", job |-> job, num |-> 0]
RunScope(job, num) == [type |-> "RUN", job |-> job, num |-> num]
LogScope(job, num) == [type |-> "LOG", job |-> job, num |-> num]
ClientScopes == {HomeScope, JobScope("a"), RunScope("a", 1), LogScope("a", 1)}

\* Laminar::registerClient: a new client joins Laminar::clients.
RegisterClient(scope) ==
    /\ clients' = Append(clients, [scope |-> scope, inbox |-> <<>>, reg |-> TRUE])
    /\ UNCHANGED <<nodes, nodeObj, jobTags, buildNums, queuedJobs, activeJobs,
                   runs, db, numKeepRunDirs, nodeCfg, jobCfg, runDirs,
                   workspaces, ioFail, hist, waiters, queueKind>>

\* Laminar::deregisterClient
DeregisterClient(c) ==
    /\ clients[c].reg
    /\ clients' = [clients EXCEPT ![c].reg = FALSE]
    /\ UNCHANGED <<nodes, nodeObj, jobTags, buildNums, queuedJobs, activeJobs,
                   runs, db, numKeepRunDirs, nodeCfg, jobCfg, runDirs,
                   workspaces, ioFail, hist, waiters, queueKind>>

\* Laminar::registerWaiter: a new waiter joins Laminar::waiters.
RegisterWaiter ==
    /\ waiters' = Append(waiters, [reg |-> TRUE, done |-> <<>>, saw |-> <<>>])
    /\ UNCHANGED <<nodes, nodeObj, jobTags, buildNums, queuedJobs, activeJobs,
                   runs, db, numKeepRunDirs, nodeCfg, jobCfg, runDirs,
                   workspaces, ioFail, clients, hist, queueKind>>

\* Laminar::deregisterWaiter
DeregisterWaiter(w) ==
    /\ waiters[w].reg
    /\ waiters' = [waiters EXCEPT ![w].reg = FALSE]
    /\ UNCHANGED <<nodes, nodeObj, jobTags, buildNums, queuedJobs, activeJobs,
                   runs, db, numKeepRunDirs, nodeCfg, jobCfg, runDirs,
                   workspaces, ioFail, clients, hist, queueKind>>

\* activeRun(job, num): the active run with that name and build, 0 if none
ActiveRun(st, job, num) ==
    LET found == {r \in Range(st.activeJobs) :
                    st.runs[r].name = job /\ st.runs[r].build = num}
    IN IF found = {} THEN 0 ELSE CHOOSE r \in found : TRUE

\* The run a row of the builds table was written for, 0 for a row that was
\* there at startup.
RunOfRow(st, job, num) ==
    LET found == {r \in DOMAIN st.runs :
                    /\ st.runs[r].phase = "terminal"
                    /\ st.runs[r].name = job
                    /\ st.runs[r].build = num}
    IN IF found = {} THEN 0 ELSE CHOOSE r \in found : TRUE

\* One byte of value 0.
Nul == [b |-> "Z", n |-> 1]

RECURSIVE CStr(_)
\* std::string(log.c_str()): the bytes before the first byte of value 0
CStr(log) ==
    IF log = <<>> \/ Head(log).b = "Z" THEN <<>>
    ELSE <<Head(log)>> \o CStr(Tail(log))

\* What the fetch callback of sendStatus sends for a row (lines 153-165):
\* for outputLen >= 1024 the uncompressed bytes in a string of outputLen + 1
\* bytes, the last one 0, or nothing when uncompress fails; else the blob.
LogReply(row) ==
    IF row.outputLen >= COMPRESS_LOG_MIN_SIZE
    THEN LET u == Uncompress(row.output)
         IN IF u.ok
            THEN <<[zipped |-> FALSE, bytes |-> u.bytes \o <<Nul>>]>>
            ELSE <<>>
    ELSE <<row.output>>

\* The messages sendStatus sends to a client of the given scope.
StatusReplies(st, scope) ==
    LET r == ActiveRun(st, scope.job, scope.num)
        rows == {x \in st.db : x.name = scope.job /\ x.number = scope.num}
        logMsg(run, data) == [type |-> "log", name |-> scope.job,
                              number |-> scope.num, run |-> run, data |-> data]
    IN IF scope.type = "LOG"
       THEN IF r # 0
            THEN <<logMsg(r, [zipped |-> FALSE, bytes |-> CStr(st.runs[r].log)])>>
            ELSE IF rows = {} THEN <<>>
            ELSE LET reply == LogReply(CHOOSE x \in rows : TRUE)
                 IN IF reply = <<>> THEN <<>>
                    ELSE <<logMsg(RunOfRow(st, scope.job, scope.num), reply[1])>>
       ELSE <<[type |-> "status", name |-> scope.job, number |-> scope.num, run |-> 0]>>

\* Laminar::sendStatus
SendStatus(c) ==
    /\ clients[c].reg
    /\ LET replies == StatusReplies(Cur, clients[c].scope)
       IN clients' = [clients EXCEPT
                        ![c] = IF replies = <<>> THEN @ ELSE Deliver(@, replies[1])]
    /\ UNCHANGED <<nodes, nodeObj, jobTags, buildNums, queuedJobs, activeJobs,
                   runs, db, numKeepRunDirs, nodeCfg, jobCfg, runDirs,
                   workspaces, ioFail, hist, waiters, queueKind>>

-----------------------------------------------------------------------------
(* The file system *)

IoChoices ==
    {[job |-> "", stage |-> "ok"]}
      \cup [job : {"a"}, stage : {"ws", "rd", "ar"}]

\* The file system starts or stops refusing a directory creation.
SetIoFail(io) ==
    /\ io # ioFail
    /\ ioFail' = io
    /\ UNCHANGED <<nodes, nodeObj, jobTags, buildNums, queuedJobs, activeJobs,
                   runs, db, numKeepRunDirs, nodeCfg, jobCfg, runDirs,
                   workspaces, clients, hist, waiters, queueKind>>

-----------------------------------------------------------------------------
(* Laminar::Laminar *)

\* The build numbers of job "a" the builds table may hold at startup.
PersistChoices == {{}, {1, 2}}

PersistedRow(name, n) ==
    [name |-> name, number |-> n, node |-> "", result |-> "success",
     output |-> [zipped |-> FALSE, bytes |-> <<>>], outputLen |-> 0]

\* The state before loadConfiguration is first called (lines 73-97):
\* buildNums is SELECT name, MAX(number) FROM builds GROUP BY name.
Constructed(persisted) ==
    [nodes |-> <<>>, nodeObj |-> <<>>, jobTags |-> <<>>,
     buildNums |-> IF persisted = {} THEN <<>> ELSE [j \in {"a"} |-> Max(persisted)],
     queuedJobs |-> <<>>, activeJobs |-> <<>>, runs |-> <<>>,
     db |-> {PersistedRow("a", n) : n \in persisted},
     runDirs |-> {<<"a", n>> : n \in persisted},
     workspaces |-> IF persisted = {} THEN {} ELSE {"a"},
     clients |-> <<>>, waiters |-> <<>>,
     hist |-> [assigned |-> [j \in Jobs |-> <<>>], inserts |-> <<>>,
               completed |-> <<>>, produced |-> <<>>, persisted |-> persisted]]

\* The state after construction (Laminar::Laminar), for the given values of
\* LAMINAR_KEEP_RUNDIRS, contents of the builds table and contents of
\* cfg/nodes and cfg/jobs.
InitBuilt(keeps, persists, ncfgs, jcfgs, kinds) ==
    /\ nodeCfg \in ncfgs
    /\ jobCfg \in jcfgs
    /\ \E persisted \in persists :
         \E st \in LoadConfiguration(Constructed(persisted), nodeCfg, jobCfg) :
            /\ nodes = st.nodes
            /\ nodeObj = st.nodeObj
            /\ jobTags = st.jobTags
            /\ buildNums = st.buildNums
            /\ queuedJobs = st.queuedJobs
            /\ activeJobs = st.activeJobs
            /\ runs = st.runs
            /\ db = st.db
            /\ runDirs = st.runDirs
            /\ workspaces = st.workspaces
            /\ clients = st.clients
            /\ hist = st.hist
            /\ waiters = st.waiters
    /\ numKeepRunDirs \in keeps
    /\ ioFail = [job |-> "", stage |-> "ok"]
    /\ queueKind \in kinds

\* The same for a build whose queuedJobs is a std::list.
InitWith(keeps, persists, ncfgs, jcfgs) ==
    InitBuilt(keeps, persists, ncfgs, jcfgs, {"list"})

-----------------------------------------------------------------------------
(* The scheduler under configuration reloads: a fresh installation (empty  *)
(* builds table, LAMINAR_KEEP_RUNDIRS unset, no .conf files at startup),   *)
(* jobs of one script each, no subscribers.                                *)

ReloadNodeCfgs == {NoNodeCfg, CfgA1, CfgA2, CfgB, CfgS3}
ReloadJobCfgs == {NoJobCfg, JobCfgGpu}

Init == InitWith({0}, {{}}, {NoNodeCfg}, {NoJobCfg})

Next ==
    \/ \E name \in JobNames : Len(runs) < MaxRuns /\ QueueJob(name)
    \/ \E ncfg \in ReloadNodeCfgs, jcfg \in ReloadJobCfgs : NotifyConfigChanged(ncfg, jcfg)
    \/ \E r \in DOMAIN runs : PipeEOF(r)
    \/ \E r \in DOMAIN runs, status \in {0, 1} : ChildExit(r, status, FALSE)
    \/ \E r \in DOMAIN runs : RunFinished(r)
    \/ AbortAll

Spec == Init /\ [][Next]_vars

-----------------------------------------------------------------------------
(* Build numbers, the builds table and the retention sweep: the default    *)
(* node, any LAMINAR_KEEP_RUNDIRS, with or without persisted history, and  *)
(* directory creation that may fail.                                       *)

InitBuilds == InitWith(KeepChoices, PersistChoices, {NoNodeCfg}, {NoJobCfg})

NextBuilds ==
    \/ \E name \in JobNames : Len(runs) < MaxBuildsRuns /\ QueueJob(name)
    \/ \E r \in DOMAIN runs : PipeEOF(r)
    \/ \E r \in DOMAIN runs, status \in {0, 1}, more \in BOOLEAN : ChildExit(r, status, more)
    \/ \E r \in DOMAIN runs : RunFinished(r)
    \/ AbortAll
    \/ \E io \in IoChoices : SetIoFail(io)

SpecBuilds == InitBuilds /\ [][NextBuilds]_vars

-----------------------------------------------------------------------------
(* Tag affinity: two nodes of one executor each, B tagged gpu and A either *)
(* untagged (S3) or tagged win (S2); job a tagged gpu, job b untagged;     *)
(* directory creation may fail.                                            *)

InitTagged == InitWith({0}, {{}}, {CfgS3, CfgS2}, {JobCfgGpu})

NextTagged ==
    \/ \E name \in JobNames : Len(runs) < MaxTaggedRuns /\ QueueJob(name)
    \/ \E r \in DOMAIN runs : PipeEOF(r)
    \/ \E r \in DOMAIN runs, status \in {0, 1} : ChildExit(r, status, FALSE)
    \/ \E r \in DOMAIN runs : RunFinished(r)
    \/ AbortAll
    \/ \E io \in IoChoices : SetIoFail(io)

SpecTagged == InitTagged /\ [][NextTagged]_vars

-----------------------------------------------------------------------------
(* Subscribers: the default node, runs of one script that may write one    *)
(* chunk of output, and clients of the four kinds of scope that register   *)
(* and deregister at any point.                                            *)

ClientChunk == [b |-> "A", n |-> 400]

InitClients == InitWith({0}, {{}}, {NoNodeCfg}, {NoJobCfg})

NextClients ==
    \/ \E name \in JobNames : Len(runs) < MaxClientRuns /\ QueueJob(name)
    \/ \E r \in DOMAIN runs : Len(runs[r].log) < MaxClientChunks /\ Output(r, ClientChunk)
    \/ \E r \in DOMAIN runs : PipeEOF(r)
    \/ \E r \in DOMAIN runs : ChildExit(r, 0, FALSE)
    \/ \E r \in DOMAIN runs : RunFinished(r)
    \/ \E scope \in ClientScopes : Len(clients) < MaxClients /\ RegisterClient(scope)
    \/ \E c \in DOMAIN clients : DeregisterClient(c)
    \/ \E c \in DOMAIN clients : Len(clients[c].inbox) < MaxInbox /\ SendStatus(c)

SpecClients == InitClients /\ [][NextClients]_vars

-----------------------------------------------------------------------------
(* The log of a run, from the pipe to the builds table and back to a LOG   *)
(* subscriber: one run of job a on the default node, whose output is up to *)
(* MaxChunks chunks of either kind, written by up to MaxSteps scripts.      *)

InitLog == InitWith({0}, {{}}, {NoNodeCfg}, {NoJobCfg})

NextLog ==
    \/ Len(runs) < MaxLogRuns /\ QueueJob("a")
    \/ \E r \in DOMAIN runs, chunk \in ChunkChoices :
          Len(runs[r].log) < MaxChunks /\ Output(r, chunk)
    \/ \E r \in DOMAIN runs : PipeEOF(r)
    \/ \E r \in DOMAIN runs, status \in {0, 1}, more \in BOOLEAN : ChildExit(r, status, more)
    \/ \E r \in DOMAIN runs : RunFinished(r)
    \/ Len(clients) < MaxLogClients /\ RegisterClient(LogScope("a", 1))
    \/ \E c \in DOMAIN clients : DeregisterClient(c)
    \/ \E c \in DOMAIN clients : Len(clients[c].inbox) < MaxInbox /\ SendStatus(c)

SpecLog == InitLog /\ [][NextLog]_vars

-----------------------------------------------------------------------------
(* Aborts: nodes A (untagged) and B (gpu) of one executor each, job a      *)
(* tagged gpu with a timeout, job b untagged without one; runs of up to    *)
(* MaxSteps scripts, aborted one by one or all at once, and waiters that   *)
(* come and go.                                                            *)

InitAbort == InitWith({0}, {{}}, {CfgS3}, {JobCfgGpu})

NextAbort ==
    \/ \E name \in JobNames : Len(runs) < MaxAbortRuns /\ QueueJob(name)
    \/ \E r \in DOMAIN runs : PipeEOF(r)
    \/ \E r \in DOMAIN runs, status \in {0, 1}, more \in BOOLEAN : ChildExit(r, status, more)
    \/ \E r \in DOMAIN runs : RunFinished(r)
    \/ AbortAll
    \/ \E r \in DOMAIN runs : TimeoutFires(r)
    \/ \E r \in DOMAIN runs : AbortRun(r)
    \/ Len(waiters) < MaxWaiters /\ RegisterWaiter
    \/ \E w \in DOMAIN waiters : DeregisterWaiter(w)

\* The child of an aborted run was signalled: its pipe reaches EOF and it is
\* reaped.  The event loop runs the continuation of a chain that has ended.
\* Each of these steps stays possible until it is taken, so that fairness
\* to them together is fairness to each.
AbortProgress ==
    \E r \in DOMAIN runs :
        \/ PipeEOF(r) /\ runs[r].aborted
        \/ \E status \in {0, 1}, more \in BOOLEAN :
              ChildExit(r, status, more) /\ runs[r].aborted
        \/ RunFinished(r)

FairAbort == WF_vars(AbortProgress)

SpecAbort == InitAbort /\ [][NextAbort]_vars /\ FairAbort

-----------------------------------------------------------------------------
(* Rewritten tags: nodes A and B of one executor each, B tagged gpu, and   *)
(* the TAGS of A.conf written to win and removed again; job a tagged gpu,  *)
(* job b untagged.                                                         *)

RetagNodeCfgs == {CfgS2, CfgS3}

InitRetag == InitWith({0}, {{}}, {CfgS3}, {JobCfgGpu})

NextRetag ==
    \/ \E name \in JobNames : Len(runs) < MaxRetagRuns /\ QueueJob(name)
    \/ \E ncfg \in RetagNodeCfgs : NotifyConfigChanged(ncfg, JobCfgGpu)
    \/ \E r \in DOMAIN runs : PipeEOF(r)
    \/ \E r \in DOMAIN runs : ChildExit(r, 0, FALSE)
    \/ \E r \in DOMAIN runs : RunFinished(r)

SpecRetag == InitRetag /\ [][NextRetag]_vars

-----------------------------------------------------------------------------
(* The queue index: nodes A tagged win and B tagged gpu of one executor    *)
(* each, so that runs of the untagged job b wait and runs of job a pass    *)
(* them; one subscriber to every job; either kind of container; directory  *)
(* creation may fail.                                                      *)

InitIndex == InitBuilt({0}, {{}}, {CfgS2}, {JobCfgGpu}, QueueKinds)

NextIndex ==
    \/ \E name \in JobNames : Len(runs) < MaxIndexRuns /\ QueueJob(name)
    \/ \E r \in DOMAIN runs : PipeEOF(r)
    \/ \E r \in DOMAIN runs : ChildExit(r, 0, FALSE)
    \/ \E r \in DOMAIN runs : RunFinished(r)
    \/ Len(clients) < MaxIndexClients /\ RegisterClient(HomeScope)
    \/ \E io \in IoChoices : SetIoFail(io)

SpecIndex == InitIndex /\ [][NextIndex]_vars

-----------------------------------------------------------------------------
(* Runs that all end: a configuration that stays as it is, nodes A and B   *)
(* of one executor each, B tagged gpu and A untagged or tagged win, job a  *)
(* tagged gpu and job b untagged, no refusal of the file system; the child *)
(* of every script exits.                                                  *)

InitAdmit == InitWith({0}, {{}}, {CfgS3, CfgS2}, {JobCfgGpu})

NextAdmit ==
    \/ \E name \in JobNames : Len(runs) < MaxAdmitRuns /\ QueueJob(name)
    \/ \E r \in DOMAIN runs : PipeEOF(r)
    \/ \E r \in DOMAIN runs, status \in {0, 1} : ChildExit(r, status, FALSE)
    \/ \E r \in DOMAIN runs : RunFinished(r)

\* Every child closes its pipe and exits, and the event loop runs the
\* continuation of a chain that has ended.  Each of these steps stays
\* possible until it is taken.
RunProgress ==
    \E r \in DOMAIN runs :
        \/ PipeEOF(r)
        \/ \E status \in {0, 1} : ChildExit(r, status, FALSE)
        \/ RunFinished(r)

FairAdmit == WF_vars(RunProgress)

SpecAdmit == InitAdmit /\ [][NextAdmit]_vars /\ FairAdmit

-----------------------------------------------------------------------------
(* Properties *)

ActiveOn(o) == {r \in Range(activeJobs) : runs[r].node = o}
IsTerminal(r) == runs[r].phase = "terminal"

\* C1: between callbacks, the busyExecutors of every Node object equals the
\* number of active runs whose node is that object, and every active run's
\* node is a live object; so admission counts a run once and the terminal
\* transition uncounts it once.
BusyMatchesActive ==
    /\ \A o \in DOMAIN nodeObj :
          nodeObj[o].busyExecutors = Cardinality(ActiveOn(o))
    /\ \A r \in Range(activeJobs) : runs[r].node \in DOMAIN nodeObj

\* C1 witness: one run has finished on a node another run is still active
\* on, after the node was taken out of the registry.
BusyMatchesActiveWitness ==
    \E o \in DOMAIN nodeObj :
        /\ nodeObj[o].busyExecutors = 1
        /\ o \notin {nodes[i].obj : i \in DOMAIN nodes}
        /\ \E r \in DOMAIN runs : IsTerminal(r)

RegistryObjs == {nodes[i].obj : i \in DOMAIN nodes}

\* C2 as stated: every registry node has 0 <= busyExecutors <= numExecutors.
BusyWithinCapacity ==
    \A o \in RegistryObjs :
        /\ 0 <= nodeObj[o].busyExecutors
        /\ nodeObj[o].busyExecutors <= nodeObj[o].numExecutors

\* C2 amended: busyExecutors is never negative, it is within numExecutors
\* after construction, and a step leaves a node above its numExecutors only
\* if the node was above it already or the step lowered its numExecutors,
\* and then without raising busyExecutors: admission never exceeds capacity.
BusyExceedsOnlyByReload ==
    /\ BusyWithinCapacity
    /\ [][\A o \in DOMAIN nodeObj' :
            LET n == nodeObj'[o] IN
            /\ 0 <= n.busyExecutors
            /\ n.busyExecutors > n.numExecutors =>
                 /\ o \in DOMAIN nodeObj
                 /\ n.busyExecutors <= nodeObj[o].busyExecutors
                 /\ \/ n.numExecutors < nodeObj[o].numExecutors
                    \/ nodeObj[o].busyExecutors > nodeObj[o].numExecutors]_vars

\* C2 witness: after a reload raised node A to two executors, admission has
\* filled both.
BusyWithinCapacityWitness ==
    \E o \in RegistryObjs :
        /\ nodeObj[o].name = "A"
        /\ nodeObj[o].numExecutors = 2
        /\ nodeObj[o].busyExecutors = 2

\* The highest build number of the job in the builds table at startup.
PersistedMax(j) == IF j = "a" /\ hist.persisted # {} THEN Max(hist.persisted) ELSE 0

\* C3: the build numbers assigned to a job, in the order of admission, are
\* m + 1, m + 2, ... where m is the highest number persisted for the job at
\* startup (0 without history); the runs that hold a number hold distinct
\* numbers of that sequence.
BuildNumbersIncrease ==
    /\ \A j \in Jobs : \A i \in DOMAIN hist.assigned[j] :
          hist.assigned[j][i] = PersistedMax(j) + i
    /\ \A r \in DOMAIN runs :
          runs[r].build # 0 => runs[r].build \in Range(hist.assigned[runs[r].name])
    /\ \A r1, r2 \in DOMAIN runs :
          (r1 # r2 /\ runs[r1].name = runs[r2].name /\ runs[r1].build # 0)
             => runs[r1].build # runs[r2].build

\* C3 witness: with builds 1 and 2 of job a persisted, two runs of a were
\* admitted, and a run of b got the first number of b.
BuildNumbersIncreaseWitness ==
    \/ /\ hist.persisted = {1, 2}
       /\ hist.assigned["a"] = <<3, 4>>
    \/ /\ hist.persisted = {1, 2}
       /\ hist.assigned["a"] = <<3>>
       /\ hist.assigned["b"] = <<1>>

RowsOf(r) == {x \in db : x.name = runs[r].name /\ x.number = runs[r].build}

\* C4: a run that reached its terminal state went through runFinished
\* once: one INSERT succeeded for it, one job_completed was generated, and
\* the builds table holds one row with its key; a run that has not reached
\* it has neither.
TerminalOnce ==
    \A r \in DOMAIN runs :
        IF IsTerminal(r)
        THEN /\ hist.inserts[r] = 1
             /\ hist.completed[r] = 1
             /\ Cardinality(RowsOf(r)) = 1
        ELSE /\ hist.inserts[r] = 0
             /\ hist.completed[r] = 0
             /\ (runs[r].build # 0 => RowsOf(r) = {})

\* C4 witness: two runs of the same job have both reached the terminal
\* state.
TerminalOnceWitness ==
    \E r1, r2 \in DOMAIN runs :
        /\ r1 # r2
        /\ runs[r1].name = runs[r2].name
        /\ IsTerminal(r1)
        /\ IsTerminal(r2)

\* The types of the messages client c has received about run r, in the
\* order of their arrival.
TypesAbout(c, r) ==
    LET about == SelectSeq(clients[c].inbox, LAMBDA m : m.run = r)
    IN [i \in DOMAIN about |-> about[i].type]

\* The scope of client c matches run r: it wants the run's status or log.
Matches(c, r) ==
    \/ WantsStatus(clients[c].scope, runs[r].name, runs[r].build)
    \/ WantsLog(clients[c].scope, runs[r].name, runs[r].build)

\* The place of a message type in (job_queued, job_started, log, job_completed).
Rank(type) ==
    CASE type = "job_queued" -> 1
      [] type = "job_started" -> 2
      [] type = "log" -> 3
      [] type = "job_completed" -> 4

\* types is a prefix of (job_queued?, job_started, log*, job_completed).
IsLifecyclePrefix(types) ==
    LET rest == IF types # <<>> /\ Head(types) = "job_queued" THEN Tail(types) ELSE types
    IN \/ rest = <<>>
       \/ /\ Head(rest) = "job_started"
          /\ \A i \in 2..Len(rest) :
                \/ rest[i] = "log"
                \/ rest[i] = "job_completed" /\ i = Len(rest)

\* types is (job_queued, job_started, log*, job_completed) with any of its
\* events left out: the ranks never fall, and only log repeats.
IsLifecycleSubsequence(types) ==
    \A i, k \in DOMAIN types :
        i < k => \/ Rank(types[i]) < Rank(types[k])
                 \/ types[i] = "log" /\ types[k] = "log"

\* C5 as stated: what a subscriber has received about a run its scope
\* matches is a prefix of (job_queued?, job_started, log*, job_completed).
EventsArePrefix ==
    \A c \in DOMAIN clients, r \in DOMAIN runs :
        Matches(c, r) => IsLifecyclePrefix(TypesAbout(c, r))

\* C5 amended: what a subscriber has received about a run is in the order
\* (job_queued, job_started, log chunks, job_completed) with no status event
\* repeated, and it is complete from the front only for a subscriber that
\* was there first: a status scope gets no log chunk, a LOG scope gets
\* nothing but log chunks.
EventsInOrder ==
    \A c \in DOMAIN clients, r \in DOMAIN runs :
        /\ IsLifecycleSubsequence(TypesAbout(c, r))
        /\ clients[c].scope.type = "LOG" => Range(TypesAbout(c, r)) \subseteq {"log"}
        /\ clients[c].scope.type # "LOG" => "log" \notin Range(TypesAbout(c, r))

\* C5 witness: of two subscribers of the same run, one has received
\* job_queued, job_started and job_completed, and the other, registered
\* while the run was active, job_completed alone.
EventsInOrderWitness ==
    \E c1, c2 \in DOMAIN clients, r \in DOMAIN runs :
        /\ Matches(c1, r) /\ Matches(c2, r)
        /\ TypesAbout(c1, r) = <<"job_queued", "job_started", "job_completed">>
        /\ TypesAbout(c2, r) = <<"job_completed">>

\* The state when the callback returns.
Post == Cur'

\* Some registry node accepts the run.
Placeable(st, r) == FirstAccepting(st, st.runs[r].name) # 0

\* What C6 asks of an admission pass that starts in state pre and ends in
\* the next state: if a queued run could be placed, a run was started; and
\* no run that could be placed is left in the queue behind one that could
\* not.
ConservesWork(pre) ==
    /\ (\E r \in Range(pre.queuedJobs) : Placeable(pre, r))
          => Len(activeJobs') > Len(pre.activeJobs)
    /\ \A r \in Range(queuedJobs') : ~ Placeable(Post, r)

\* The admission passes of a step: the one queueJob ends with and the one
\* runFinished ends with, each with the state assignNewJobs is called in.
EveryPassConservesWork ==
    /\ \A name \in Jobs : QueueJob(name) => ConservesWork(Enqueue(Cur, name))
    /\ \A r \in DOMAIN runs :
          RunFinished(r) => ConservesWork(FinishRun(Cur, r, numKeepRunDirs))

FinishedRunOf(scope) == RunOfRow(Cur, scope.job, scope.num)

\* What C7 asks of sendStatus for LOG client c whose run r has completed:
\* one message, holding the bytes the run produced.
RepliesWithLog(c, r) ==
    /\ Len(clients'[c].inbox) = Len(clients[c].inbox) + 1
    /\ LET data == clients'[c].inbox[Len(clients'[c].inbox)].data
       IN /\ ~ data.zipped
          /\ Bytes(data.bytes) = hist.produced[r]

\* C7 as stated: sendStatus to a LOG subscriber of a completed run sends
\* exactly the bytes the run produced, whatever their length and whether
\* or not compress succeeded when they were stored.
LogRoundTrip ==
    [][\A c \in DOMAIN clients :
          (/\ SendStatus(c)
           /\ clients[c].scope.type = "LOG"
           /\ FinishedRunOf(clients[c].scope) # 0)
             => RepliesWithLog(c, FinishedRunOf(clients[c].scope))]_vars

ContigDown(dirs, j, top) ==
    {k \in 1..top : \A m \in k..top : <<j, m>> \in dirs}

\* What C8 asks of the terminal transition of run r: with B counted from
\* the runs active afterwards, the directories contiguous downward from
\* B - keepN are gone when the callback returns, and the sweep deletes
\* nothing when keepN >= B.
RetentionOf(r) ==
    LET j == runs[r].name
        B == OldestActive(Post, j)
    IN IF KeepAtLeast(numKeepRunDirs, B)
       THEN FinishRun(Cur, r, numKeepRunDirs).runDirs = runDirs
       ELSE \A k \in ContigDown(runDirs, j, B - numKeepRunDirs) :
               <<j, k>> \notin runDirs'

\* C8 as stated: every terminal transition sweeps as RetentionOf says.
RetentionSweep == [][\A r \in DOMAIN runs : RunFinished(r) => RetentionOf(r)]_vars

\* The decision table of C9.
JobTagsOf(jt, name) == IF name \in DOMAIN jt THEN jt[name] ELSE {}
Policy(busy, capacity, nodeTags, jobTagSet) ==
    IF busy >= capacity THEN FALSE
    ELSE IF nodeTags = {} THEN TRUE
    ELSE IF jobTagSet = {} THEN FALSE
    ELSE nodeTags \cap jobTagSet # {}

JobTagMaps == UNION {[D -> SUBSET Tags] : D \in SUBSET Jobs}

\* nodeCanQueue agrees with the table for busy and capacity in 0..2, every
\* node tag set, and every job tag map.
PolicyTable ==
    \A busy \in 0..2, capacity \in 0..2, nodeTags \in SUBSET Tags,
       jt \in JobTagMaps, name \in Jobs :
        NodeCanQueue([NewNode("n", capacity, nodeTags) EXCEPT !.busyExecutors = busy],
                     name, jt)
          = Policy(busy, capacity, nodeTags, JobTagsOf(jt, name))

\* C9: nodeCanQueue returns what the table says, for the enumerated inputs
\* and for every live node and every job in every reachable state.
NodeCanQueuePolicy ==
    /\ PolicyTable
    /\ \A o \in DOMAIN nodeObj, name \in Jobs :
          NodeCanQueue(nodeObj[o], name, jobTags)
            = Policy(nodeObj[o].busyExecutors, nodeObj[o].numExecutors,
                     nodeObj[o].tags, JobTagsOf(jobTags, name))

\* C9 witness: a run of the tagged job waits although a node with a free
\* executor is in the registry, because that node's tags do not match.
NodeCanQueuePolicyWitness ==
    \E q \in Range(queuedJobs), o \in RegistryObjs :
        /\ JobTagsOf(jobTags, runs[q].name) # {}
        /\ nodeObj[o].busyExecutors < nodeObj[o].numExecutors
        /\ nodeObj[o].tags # {}
        /\ ~ NodeCanQueue(nodeObj[o], runs[q].name, jobTags)

\* Scenario S3: node A (one executor, no tags), node B (one executor, tag
\* gpu), job a tagged gpu (J1), job b untagged (J2), nothing refused.
S3Config == nodeCfg = CfgS3 /\ jobCfg = JobCfgGpu /\ ioFail.stage = "ok"
NodeNameOf(st, r) == st.nodeObj[st.runs[r].node].name
\* J1 is enqueued with both nodes idle.
S3EnqueueJ1 == S3Config /\ queuedJobs = <<>> /\ activeJobs = <<>> /\ QueueJob("a")
\* J2 is enqueued when J1 is the one active run and nothing is queued.
S3EnqueueJ2 ==
    /\ S3Config
    /\ queuedJobs = <<>>
    /\ Len(activeJobs) = 1
    /\ runs[activeJobs[1]].name = "a"
    /\ QueueJob("b")

\* C10 as stated: J1 starts on B, and J2 then starts on A beside it.
S3BothStart ==
    [][/\ S3EnqueueJ1 =>
            /\ Len(activeJobs') = 1
            /\ NodeNameOf(Post, activeJobs'[1]) = "B"
       /\ S3EnqueueJ2 =>
            /\ activeJobs' = <<activeJobs[1], Len(runs) + 1>>
            /\ NodeNameOf(Post, activeJobs[1]) = "B"
            /\ NodeNameOf(Post, Len(runs) + 1) = "A"]_vars

\* C10 amended: J1 starts on the node the registry iterates first, A or B;
\* if J1 runs on B, J2 starts on A beside it, and if J1 runs on A, J2 stays
\* queued and J1 stays the only active run.
S3FirstNodeTakesJ1 ==
    [][/\ S3EnqueueJ1 =>
            /\ Len(activeJobs') = 1
            /\ Post.runs[activeJobs'[1]].node = nodes[1].obj
            /\ queuedJobs' = <<>>
       /\ S3EnqueueJ2 =>
            IF NodeNameOf(Cur, activeJobs[1]) = "B"
            THEN /\ activeJobs' = <<activeJobs[1], Len(runs) + 1>>
                 /\ NodeNameOf(Post, Len(runs) + 1) = "A"
                 /\ queuedJobs' = <<>>
            ELSE /\ activeJobs' = activeJobs
                 /\ queuedJobs' = <<Len(runs) + 1>>]_vars

\* C10 witness: in scenario S3, J1 is active on B and J2 on A.
S3BothStartWitness ==
    /\ S3Config
    /\ Len(runs) = 2
    /\ activeJobs = <<1, 2>>
    /\ runs[1].name = "a" /\ NodeNameOf(Cur, 1) = "B"
    /\ runs[2].name = "b" /\ NodeNameOf(Cur, 2) = "A"

\* The runs the step started.
Started == Range(activeJobs') \ Range(activeJobs)

\* The registry nodes of state st whose tags let the job in: untagged nodes
\* and nodes that share a tag with the job.
TagMatching(st, name) ==
    {i \in DOMAIN st.nodes :
        LET tags == st.nodeObj[st.nodes[i].obj].tags
        IN tags = {} \/ tags \cap JobTagsOf(st.jobTags, name) # {}}

Saturated(st, i) ==
    LET node == st.nodeObj[st.nodes[i].obj]
    IN node.busyExecutors >= node.numExecutors

\* C11: a step never starts a run of a tagged job on a tagged node that
\* shares no tag with the job; and a run of a tagged job that is enqueued
\* while every node whose tags let it in is saturated is in the queue, not
\* in the active set, when queueJob returns, whatever other nodes are idle.
TagAffinity ==
    [][/\ \A r \in Started :
             LET node == nodeObj'[runs'[r].node]
                 jt == JobTagsOf(jobTags', runs'[r].name)
             IN (jt # {} /\ node.tags # {}) => jt \cap node.tags # {}
       /\ \A name \in Jobs :
             (/\ QueueJob(name)
              /\ JobTagsOf(jobTags, name) # {}
              /\ \A i \in TagMatching(Cur, name) : Saturated(Cur, i))
                => /\ Len(runs) + 1 \in Range(queuedJobs')
                   /\ Len(runs) + 1 \notin Range(activeJobs')]_vars

\* C11 witness: scenario S2 with job a tagged gpu: a run of a is active on
\* B (tagged gpu), a later run of a waits in the queue, and A (tagged win)
\* is idle.
TagAffinityWitness ==
    /\ nodeCfg = CfgS2
    /\ \E r \in Range(activeJobs), q \in Range(queuedJobs) :
          /\ runs[r].name = "a" /\ runs[q].name = "a"
          /\ NodeNameOf(Cur, r) = "B"
    /\ \E o \in RegistryObjs :
          /\ nodeObj[o].name = "A"
          /\ nodeObj[o].tags = {"win"}
          /\ nodeObj[o].busyExecutors = 0
    /\ ioFail.stage = "ok"

\* The first queued run of state st that some registry node accepts, 0 if
\* there is none.
FirstPlaceable(st) ==
    LET ok == {i \in DOMAIN st.queuedJobs : Placeable(st, st.queuedJobs[i])}
    IN IF ok = {} THEN 0 ELSE st.queuedJobs[Min(ok)]

\* What C12 asks of a call of notifyConfigChanged whose loadConfiguration
\* leaves state st: the first queued run that a node of st accepts is
\* active when the call returns, no run is left in the queue that a node
\* with a free executor accepts, and no run was created.
UnblocksFrom(st) ==
    /\ FirstPlaceable(st) # 0 => FirstPlaceable(st) \in Range(activeJobs')
    /\ \A q \in Range(queuedJobs') : ~ Placeable(Post, q)
    /\ Len(runs') = Len(runs)

Reloaded(ncfg, jcfg) == {Collect(st) : st \in LoadConfiguration(Cur, ncfg, jcfg)}

\* C13: whatever cfg/nodes and cfg/jobs hold, loadConfiguration leaves the
\* active set and every run as they are, every Node object that outlives
\* it keeps its busyExecutors, and the Node of every active run outlives
\* it, in the registry or not.
ReloadKeepsRunning ==
    \A ncfg \in ReloadNodeCfgs, jcfg \in ReloadJobCfgs :
        \A st \in Reloaded(ncfg, jcfg) :
            /\ st.activeJobs = activeJobs
            /\ st.queuedJobs = queuedJobs
            /\ st.runs = runs
            /\ \A r \in Range(activeJobs) : runs[r].node \in DOMAIN st.nodeObj
            /\ \A o \in DOMAIN st.nodeObj \cap DOMAIN nodeObj :
                   st.nodeObj[o].busyExecutors = nodeObj[o].busyExecutors

\* C13 witness: node A was removed and added again while a run was active
\* on it: the run holds the old Node with its busy counter of 1, and the
\* registry holds another Node of the same name.
ReloadKeepsRunningWitness ==
    \E r \in Range(activeJobs) :
        /\ runs[r].node \notin RegistryObjs
        /\ nodeObj[runs[r].node].busyExecutors = 1
        /\ nodeObj[runs[r].node].name = "A"
        /\ "A" \in RegistryNames(nodes)

\* C14 as stated: when notifyConfigChanged has returned after a change of
\* cfg/nodes or cfg/jobs, the tags jobTags holds for each job are the TAGS
\* of its config file, none for a job without a file or without TAGS.
JobTagsReplaced ==
    [][(nodeCfg' # nodeCfg \/ jobCfg' # jobCfg) =>
          \A j \in Jobs : JobTagsOf(jobTags', j) = jobCfg'[j]]_vars

\* The default node as loadConfiguration makes it.
IsDefaultNode(node) ==
    /\ node.name = ""
    /\ node.numExecutors = DefaultExecutors
    /\ node.tags = {}

\* C15: between callbacks, so after every loadConfiguration, the registry
\* is not empty; it holds the node of the empty name exactly when cfg/nodes
\* holds no node file, and that node has six executors and no tags; and a
\* reload that again finds no node file leaves the registry with the same
\* Node object, unchanged.
DefaultNodeRule ==
    /\ nodes # <<>>
    /\ ("" \in RegistryNames(nodes)) <=> (DOMAIN nodeCfg = {})
    /\ DOMAIN nodeCfg = {} =>
          /\ Len(nodes) = 1
          /\ IsDefaultNode(nodeObj[nodes[1].obj])
          /\ \A jcfg \in ReloadJobCfgs :
                \A st \in LoadConfiguration(Cur, NoNodeCfg, jcfg) :
                    /\ st.nodes = nodes
                    /\ st.nodeObj[nodes[1].obj] = nodeObj[nodes[1].obj]

\* C15 witness: there is no node file, a reload has been through (it
\* brought the tags of job a), and the default node has a run on it.
DefaultNodeRuleWitness ==
    /\ DOMAIN nodeCfg = {}
    /\ jobCfg = JobCfgGpu
    /\ \E r \in Range(activeJobs) :
          /\ runs[r].node = nodes[1].obj
          /\ nodeObj[nodes[1].obj].busyExecutors = 1

\* C16: queueJob for a name without a .run script returns with every
\* variable as it was: queue, active set, runs, Node objects, build
\* numbers, the builds table, the directories and every subscriber's
\* messages.
RejectedEnqueueChangesNothing ==
    [][\A name \in JobNames \ Jobs : QueueJob(name) => UNCHANGED vars]_vars

\* C16 witness: queueJob may be called for such a name while a run is
\* active on a busy node, its build number is taken and a subscriber that
\* wants every status event is registered; the call leaves this state.
RejectedEnqueueChangesNothingWitness ==
    /\ Len(runs) < MaxClientRuns
    /\ JobNames \ Jobs # {}
    /\ \E r \in Range(activeJobs) :
          /\ nodeObj[runs[r].node].busyExecutors > 0
          /\ BuildNum(buildNums, runs[r].name) > 0
    /\ \E c \in DOMAIN clients : clients[c].reg /\ clients[c].scope = HomeScope

\* In state st a node accepts queued run q, and the file system refuses a
\* directory that starting q needs: tryStartRun for q fails with an I/O
\* error.
StartupRefused(st, io, q) ==
    LET name == st.runs[q].name
    IN /\ Placeable(st, q)
       /\ \/ Refuses(io, name, "ws") /\ name \notin st.workspaces
          \/ Refuses(io, name, "rd")
          \/ Refuses(io, name, "ar")

\* A step that ends with an admission pass of queueJob or runFinished.
AdmissionStep ==
    \/ \E name \in Jobs : QueueJob(name)
    \/ \E r \in DOMAIN runs : RunFinished(r)

\* C17 as stated: a run whose startup fails with an I/O error during an
\* admission pass is not in the queue when the pass is over, and the
\* builds table has no row for it.
StartupFailureDrops ==
    [][AdmissionStep =>
          /\ \A q \in Range(queuedJobs') : ~ StartupRefused(Post, ioFail, q)
          /\ \A q \in DOMAIN runs' : runs'[q].phase = "queued" => hist.inserts'[q] = 0]_vars

\* The number of places of sequence s that hold x.
CountIn(s, x) == Cardinality({i \in DOMAIN s : s[i] = x})

\* C18: between callbacks every run is in exactly one of the queue, the
\* active set and the terminal state, and in the queue or the active set
\* once; a queued run has no node, no build number and no startedAt, an
\* active run has all three.
RunInOnePlace ==
    \A r \in DOMAIN runs :
        /\ CountIn(queuedJobs, r) + CountIn(activeJobs, r)
              + (IF IsTerminal(r) THEN 1 ELSE 0) = 1
        /\ r \in Range(queuedJobs) =>
              /\ runs[r].node = NoObj
              /\ runs[r].build = 0
              /\ ~ runs[r].startedAt
        /\ r \in Range(activeJobs) =>
              /\ runs[r].node \in DOMAIN nodeObj
              /\ runs[r].build > 0
              /\ runs[r].startedAt

\* C18 witness: one run has finished, one is active, and one is in the
\* queue after a startup of it failed on the archive directory.
RunInOnePlaceWitness ==
    \E q \in Range(queuedJobs), r \in Range(activeJobs), t \in DOMAIN runs :
        /\ IsTerminal(t)
        /\ runs[q].runDir # 0

\* The registered subscribers whose scope wants the log of run r.
LogSubscribers(r) ==
    {c \in LogWanting(clients, runs[r].name, runs[r].build) : clients[c].reg}

\* What C19 asks of a step, for run r:
\*  - the exit status of a script is taken up, and the next script spawned
\*    or the run declared done, only when the pipe of the script was read
\*    to EOF (the run is at "reap");
\*  - output is appended to the log only while the pipe is drained, and
\*    with it every subscriber to the log has the chunk as its last message;
\*  - job_completed is generated only for a run declared done, whose whole
\*    log is what is stored, and no output follows it.
DrainsBeforeReaping(r) ==
    /\ (/\ r \in Range(activeJobs')
        /\ \/ runs'[r].step > runs[r].step
           \/ runs'[r].phase = "done" /\ runs[r].phase # "done")
          => runs[r].phase = "reap"
    /\ (r \in Range(activeJobs') /\ runs'[r].log # runs[r].log)
          => /\ runs[r].phase = "drain"
             /\ \E chunk \in ChunkChoices :
                   /\ runs'[r].log = Append(runs[r].log, chunk)
                   /\ \A c \in LogSubscribers(r) :
                         /\ Len(clients'[c].inbox) = Len(clients[c].inbox) + 1
                         /\ clients'[c].inbox[Len(clients'[c].inbox)].data.bytes = <<chunk>>
    /\ hist.completed'[r] > hist.completed[r]
          => /\ runs[r].phase = "done"
             /\ hist.produced'[r] = Bytes(runs[r].log)
    /\ IsTerminal(r) => runs'[r] = runs[r] /\ hist.produced'[r] = hist.produced[r]

\* C19: every step drains before it reaps.
DrainBeforeReap == [][\A r \in DOMAIN runs : DrainsBeforeReaping(r)]_vars

\* C19 witness: the second script of a run was reaped and the run declared
\* done, its output of two chunks is in the log, and a subscriber to the
\* log has both chunks.
DrainBeforeReapWitness ==
    \E r \in Range(activeJobs), c \in DOMAIN clients :
        /\ runs[r].step = 2
        /\ runs[r].phase = "done"
        /\ Len(runs[r].log) = 2
        /\ c \in LogSubscribers(r)
        /\ Len(clients[c].inbox) = 2
        /\ \A i \in 1..2 : /\ clients[c].inbox[i].type = "log"
                           /\ clients[c].inbox[i].data.bytes = <<runs[r].log[i]>>

\* The builds row of run r, as runFinished writes it for an aborted run.
AbortedRow(row, name, build) ==
    row.name = name /\ row.number = build /\ row.result = "aborted"

\* What C20 asks of a step, for a run r that is active and aborted before
\* it: either the run stays active, aborted, at the script it was at; or
\* the step is the run's terminal transition, whole: the busy count of its
\* node is one less but for the runs the step started on it, a builds row
\* with result aborted is new, job_completed is generated once, every
\* registered waiter is told of the run, and the admission pass has left
\* no queued run that a node accepts.
AbortedStaysOrEnds(r) ==
    \/ /\ r \in Range(activeJobs')
       /\ runs'[r].step = runs[r].step
       /\ runs'[r].aborted
       /\ runs'[r].result = "aborted"
    \/ /\ r \notin Range(activeJobs') \cup Range(queuedJobs')
       /\ runs'[r].phase = "terminal"
       /\ LET n == runs[r].node
          IN nodeObj'[n].busyExecutors
                = nodeObj[n].busyExecutors - 1
                    + Cardinality({q \in Started : runs'[q].node = n})
       /\ \E row \in db' \ db : AbortedRow(row, runs[r].name, runs[r].build)
       /\ hist.completed[r] = 0 /\ hist.completed'[r] = 1
       /\ \A w \in DOMAIN waiters :
             waiters[w].reg => waiters'[w].done = Append(waiters[w].done, r)
       /\ \A q \in Range(queuedJobs') : ~ Placeable(Post, q)

\* C20: from the moment a run is aborted, by abortAll, by the abort of that
\* run or by its timer, no further script of it is spawned, and the run
\* goes through the whole terminal transition.
AbortIsLevelTriggered ==
    /\ [][\A r \in Range(activeJobs) : runs[r].aborted => AbortedStaysOrEnds(r)]_vars
    /\ \A r \in 1..MaxAbortRuns :
          (r \in Range(activeJobs) /\ runs[r].aborted)
              ~> (r \in DOMAIN runs /\ IsTerminal(r))

\* C20 witness: a run of job b was aborted at its first script and went
\* through the terminal transition: its row is in the table, the waiter
\* was told, and the run that waited for node A behind it is active.
AbortIsLevelTriggeredWitness ==
    \E r, q \in DOMAIN runs, w \in DOMAIN waiters :
        /\ IsTerminal(r)
        /\ \E row \in db : AbortedRow(row, "b", runs[r].build)
        /\ runs[r].name = "b"
        /\ hist.completed[r] = 1
        /\ waiters[w].done = <<r>>
        /\ q \in Range(activeJobs) /\ runs[q].name = "b" /\ q > r

RECURSIVE ReceivedLen(_, _)
\* The number of log bytes of run r in a sequence of messages.
ReceivedLen(inbox, r) ==
    IF inbox = <<>> THEN 0
    ELSE (IF Head(inbox).type = "log" /\ Head(inbox).run = r
          THEN LogLen(Head(inbox).data.bytes) ELSE 0)
         + ReceivedLen(Tail(inbox), r)

\* C21: a subscriber to the log of an active run has received, in the
\* snapshot of sendStatus and the chunks of the run executor together, no
\* more bytes than the run has written: no byte of the log twice.
NoLogByteTwice ==
    \A c \in DOMAIN clients, r \in Range(activeJobs) :
        clients[c].scope = LogScope(runs[r].name, runs[r].build)
            => ReceivedLen(clients[c].inbox, r) <= LogLen(runs[r].log)

\* The terminal transition of run r: the step that takes it out of the
\* active set.
Ends(r) == r \in Range(activeJobs) /\ r \notin Range(activeJobs')

\* C22: the terminal transition of a run calls complete(run) once for every
\* waiter registered then, and for no waiter that has left; no other step
\* calls it; and what a waiter finds when it is called is the builds row of
\* the run in the table, job_completed generated once, and the run still
\* in the active set.
WaitersToldOnce ==
    [][/\ \A w \in DOMAIN waiters :
             LET told == {r \in DOMAIN runs : Ends(r)}
             IN IF waiters[w].reg /\ told # {}
                THEN \E r \in told :
                        /\ waiters'[w].done = Append(waiters[w].done, r)
                        /\ r \notin Range(waiters[w].done)
                        /\ waiters'[w].saw = Append(waiters[w].saw,
                               [row |-> TRUE, completed |-> 1, active |-> TRUE])
                        /\ \E x \in db' \ db :
                              x.name = runs[r].name /\ x.number = runs[r].build
                ELSE /\ waiters'[w].done = waiters[w].done
                     /\ waiters'[w].saw = waiters[w].saw
       /\ \A w \in DOMAIN waiters' \ DOMAIN waiters : waiters'[w].done = <<>>]_vars

\* C22 witness: a waiter that was told of the first run and then left was
\* not told of the second, which has ended too.
WaitersToldOnceWitness ==
    \E w \in DOMAIN waiters :
        /\ ~ waiters[w].reg
        /\ waiters[w].done = <<1>>
        /\ Len(runs) = 2
        /\ \A r \in DOMAIN runs : IsTerminal(r) /\ hist.completed[r] = 1

\* The Node the registry holds under a name.
NodeNamed(n) == nodeObj[ObjOf(nodes, n)]

\* C23: every node that has a file in cfg/nodes is in the registry with the
\* name, the number of executors and the tags of its file as last loaded;
\* a node whose file has no TAGS has no tags.
NodesMatchFiles ==
    \A n \in DOMAIN nodeCfg :
        /\ n \in RegistryNames(nodes)
        /\ NodeNamed(n).name = n
        /\ NodeNamed(n).numExecutors = nodeCfg[n].executors
        /\ NodeNamed(n).tags = nodeCfg[n].tags

\* The job_started messages a step adds to the inbox of client c.
NewStarted(c) ==
    {clients'[c].inbox[i] : i \in (Len(clients[c].inbox) + 1)..Len(clients'[c].inbox)}

\* C24: the queueIndex of a job_started event is the number of runs that
\* were in the queue before the run when it was admitted: the runs queued
\* before it that the pass left in the queue.
QueueIndexIsPosition ==
    [][\A c \in DOMAIN clients : \A m \in NewStarted(c) :
          m.type = "job_started"
             => m.queueIndex = Cardinality({q \in Range(queuedJobs') : q < m.run})]_vars

\* A run is admitted from the moment it has a build number, and keeps the
\* number when it has ended.
Admitted(r) == runs[r].build > 0

\* C25: of two runs of one job, the one enqueued first is admitted no later
\* than the other and has the smaller build number.
PerJobFifo ==
    \A r1, r2 \in DOMAIN runs :
        (r1 < r2 /\ runs[r1].name = runs[r2].name /\ Admitted(r2))
            => Admitted(r1) /\ runs[r1].build < runs[r2].build

\* C25 witness: two runs of job b are enqueued, node A has one executor:
\* the first is admitted with build 1 and the second waits behind it.
PerJobFifoWitness ==
    /\ Len(runs) = 2
    /\ runs[1].name = "b" /\ runs[2].name = "b"
    /\ activeJobs = <<1>> /\ runs[1].build = 1
    /\ queuedJobs = <<2>>
    /\ nodeObj[runs[1].node].numExecutors = 1

\* Some registry node with an executor passes the tag policy for the run.
Eligible(r) ==
    \E i \in TagMatching(Cur, runs[r].name) :
        nodeObj[nodes[i].obj].numExecutors >= 1

RunDirOf(r) == <<runs[r].name, runs[r].build>>

\* C27: no step, and so no retention sweep of a terminal transition,
\* removes the run directory of a run that is in the active set before and
\* after it.
SweepSparesActive ==
    [][\A r \in Range(activeJobs) \cap Range(activeJobs') :
          RunDirOf(r) \in runDirs => RunDirOf(r) \in runDirs']_vars

\* The clients of state st that hold a job_started message about run q.
StartedSent(st, q) ==
    {c \in DOMAIN st.clients :
        \E i \in DOMAIN st.clients[c].inbox :
            /\ st.clients[c].inbox[i].type = "job_started"
            /\ st.clients[c].inbox[i].run = q}

\* What C28 asks of tryStartRun for queued run q when the file system
\* refuses, as io says, a directory that starting q needs: it does not
\* report a start, and it leaves every node's busy count, the build
\* number counters, the run's node, build number and startedAt, the active
\* set and what the clients were sent as they were.
LeavesAccounts(q, io) ==
    LET t == TryStartRun(Cur, q, io)
    IN /\ ~ t.ok
       /\ \A o \in DOMAIN nodeObj :
             t.st.nodeObj[o].busyExecutors = nodeObj[o].busyExecutors
       /\ t.st.buildNums = buildNums
       /\ t.st.hist.assigned = hist.assigned
       /\ t.st.runs[q].node = NoObj
       /\ t.st.runs[q].build = 0
       /\ ~ t.st.runs[q].startedAt
       /\ t.st.activeJobs = activeJobs
       /\ t.st.queuedJobs = queuedJobs
       /\ t.st.clients = clients
       /\ StartedSent(t.st, q) = {}

\* C28: a startup that fails because a directory cannot be created leaves
\* the accounting of the scheduler unchanged.
FailedStartupKeepsAccounts ==
    \A q \in Range(queuedJobs), io \in IoChoices :
        StartupRefused(Cur, io, q) => LeavesAccounts(q, io)

\* C28 witness: the startup of a queued run was refused, node B is idle
\* and would take it, the file system still refuses its run directory,
\* and a subscriber has its job_queued event.
FailedStartupKeepsAccountsWitness ==
    \E q \in Range(queuedJobs), c \in DOMAIN clients :
        /\ StartupRefused(Cur, ioFail, q)
        /\ ioFail.stage = "rd"
        /\ \E i \in DOMAIN clients[c].inbox :
              clients[c].inbox[i].type = "job_queued" /\ clients[c].inbox[i].run = q
        /\ \A o \in DOMAIN nodeObj : nodeObj[o].busyExecutors = 0
=============================================================================
